---- MODULE Spec2Model ----
(***************************************************************************)
(* The credential session provider (AuthProvider) of the placement app,    *)
(* with the two directory tables it talks to (admin_users, students).      *)
(*                                                                         *)
(* A credential call is an async function: every `await` of a directory    *)
(* request is a scheduling point, so a call is a slot that moves from one  *)
(* await to the next.  One action is one run-to-completion segment of a    *)
(* call: the directory answers the pending request and the code that       *)
(* follows the await runs up to the next await or return.                  *)
(*                                                                         *)
(* user, userType and loading are three separate React state cells.  The   *)
(* three setters that commit an identity run after an await.  A root that  *)
(* batches updates renders once after the three; a root that does not      *)
(* (legacy root, React <= 17) renders after each setter.  Both builds are  *)
(* modelled: a commit is either one step (batched) or three (unbatched),   *)
(* and while an unbatched commit runs nothing else is scheduled (`sync`).  *)
(***************************************************************************)
EXTENDS Integers, FiniteSets, Sequences, TLC

\* ------------------------------------------------------------------ bounds
\* Number of credential calls that may be in flight at the same time (and of
\* applyForPlacement calls of the placements screen).
MaxInFlight == 2
\* Longest company name, in characters.
MaxNameLen == 2

\* ------------------------------------------------------- values of the model
Codes == {"ADMIN001", "ADMIN002", "ADMIN999"}
Passwords == {"admin123", "secret2"}
Uids == {"TYIT001", "TYIT002"}
Emails == {"john@college.edu", "jane@college.edu"}
Names == {"Asha"}
RollNos == {"R1", "R2"}

\* The rows the admin table may hold: the seeded administrator and one more.
AdminRecords ==
  { [id |-> 101, admin_code |-> "ADMIN001", password_hash |-> "admin123",
     name |-> "System Administrator", email |-> "admin@college.edu"],
    [id |-> 102, admin_code |-> "ADMIN002", password_hash |-> "secret2",
     name |-> "Second Administrator", email |-> "admin2@college.edu"] }

\* Rows the students table may hold before the first registration.
SeedStudents ==
  { [id |-> 1, name |-> "John", uid |-> "TYIT001", email |-> "john@college.edu",
     roll_no |-> "R1"],
    [id |-> 2, name |-> "Jane", uid |-> "TYIT002", email |-> "jane@college.edu",
     roll_no |-> "R2"] }

\* ---------------------------------------------------------- result messages
\* (the two multi-line messages of registerStudent are kept by their first line)
MsgDbConnection == "Database connection failed. Please check your Supabase configuration."
MsgInvalidAdminCode == "Invalid admin code"
MsgInvalidPassword == "Invalid password"
MsgLoginFailed == "Login failed. Please try again."
MsgConfigureSignIn == "Please configure your Supabase credentials in the .env file and restart the server."
MsgInvalidCredentials == "Invalid credentials. Please check your UID and email."
MsgCannotConnectSignIn == "Cannot connect to database. Please check your Supabase configuration and internet connection."
MsgConfigureRegister == "Please configure your Supabase credentials"
MsgConflict == "Student with this UID or email already exists"
MsgRegistrationFailed == "Registration failed. Please try again."
MsgCannotConnectRegister == "Cannot connect to database. Please check"

VARIABLES
  user,        \* useState<User | null>: {} is null, {u} is the user u
  userType,    \* useState<UserType>: "null", "admin" or "student"
  loading,     \* useState(true)
  mounted,     \* the mount effect (checkSession) has run
  env,         \* EXPO_PUBLIC_SUPABASE_*: "configured", "placeholder" or "unset"
  admin_users, \* rows of the admin_users table
  students,    \* rows of the students table
  calls,       \* the credential calls in flight, by slot
  sync,        \* "none", or who is in the middle of an unbatched commit
  ret,         \* {} or {r}: the result r handed to a caller by the last step
  script,      \* scripted client: the operations still to issue
  trace,       \* scripted client: the results of the operations completed
  session,     \* auth.uid() of the Supabase client: {} (no session) or {uid}
  revision,    \* which student placements screen is mounted
  student_profiles,        \* rows of the student_profiles table
  placement_events,        \* rows of the placement_events table
  placement_applications,  \* rows of the placement_applications table
  submissions, \* rows of the student_requirement_submissions table
  buckets,     \* names of the storage buckets that exist
  applying,    \* useState<string | null>: "null" or the event id
  applies,     \* the applyForPlacement calls in flight, by slot
  selectedEvent,  \* useState<PlacementEvent | null>: {} or {event}
  creating,    \* the createPlacementEvent call in flight: {} or {call}
  alert,       \* {} or {a}: what the handler that ran at this step showed
  upload       \* {} or {u}: the storage upload attempted at this step

\* The variables of the credential provider and of its clients.
authVars == <<user, userType, loading, mounted, env, admin_users, students, calls,
              sync, ret, script, trace>>

\* The variables of the placements screens and of their tables.
placementVars == <<session, revision, student_profiles, placement_events,
                   placement_applications, submissions, buckets, applying,
                   applies, selectedEvent, creating, alert, upload>>

vars == <<user, userType, loading, mounted, env, admin_users, students, calls,
          sync, ret, script, trace, session, revision, student_profiles,
          placement_events, placement_applications, submissions, buckets,
          applying, applies, selectedEvent, creating, alert, upload>>

Slots == 1..MaxInFlight

\* What a call remembers of the moment it was issued.
NoSnapshot == [user |-> {}, userType |-> "null", students |-> {}]

IdleCall ==
  [kind |-> "idle", pc |-> "idle", args |-> [none |-> TRUE], data |-> {},
   faulted |-> FALSE, before |-> NoSnapshot]

\* An applyForPlacement slot with no call in it.
IdleApply == [pc |-> "idle", event |-> 0, student |-> 0]

\* ------------------------------------------------------------- the directory
\* A students table whose roll_no column is not UNIQUE.
StudentsTableOkRollNoRepeats(rows) ==
  \A r1, r2 \in rows :
    (r1.id = r2.id \/ r1.uid = r2.uid \/ r1.email = r2.email) => r1 = r2

\* students: id is the PRIMARY KEY; uid, email and roll_no are UNIQUE.
StudentsTableOk(rows) ==
  \A r1, r2 \in rows :
    (r1.id = r2.id \/ r1.uid = r2.uid \/ r1.email = r2.email \/ r1.roll_no = r2.roll_no)
      => r1 = r2

\* id uuid PRIMARY KEY DEFAULT gen_random_uuid(): an id no row has.
GenId(rows) ==
  IF rows = {} THEN 1
  ELSE 1 + (CHOOSE m \in {r.id : r \in rows} : \A r \in rows : r.id <= m)

\* .single(): the row when exactly one row matches, else data = null (and error).
Single(rows) == IF Cardinality(rows) = 1 THEN rows ELSE {}

\* How a directory request can end: answered, failed with a returned error
\* ({data: null, error}), or the client throws (a TypeError of fetch, or another
\* exception).  The mock client of an unconfigured build always answers.
Outcomes ==
  IF env = "configured" THEN {"ok", "error", "throwFetch", "throwOther"} ELSE {"ok"}

Throws(o) == o \in {"throwFetch", "throwOther"}

\* ------------------------------------------------------------------- Init
InitProvider ==
  /\ user = {}
  /\ userType = "null"
  /\ loading = TRUE
  /\ mounted = FALSE
  /\ env \in {"configured", "placeholder", "unset"}
  /\ admin_users \in {{}, AdminRecords}
  /\ students \in SUBSET SeedStudents
  /\ env # "configured" => admin_users = {} /\ students = {}
  /\ calls = [c \in Slots |-> IdleCall]
  /\ sync = "none"
  /\ ret = {}

\* The placements screens are not open: nothing of them is in flight and their
\* tables are empty.
PlacementsClosed ==
  /\ session = {}
  /\ revision = "byCompany"
  /\ student_profiles = {}
  /\ placement_events = {}
  /\ placement_applications = {}
  /\ submissions = {}
  /\ buckets = {}
  /\ applying = "null"
  /\ applies = [c \in Slots |-> IdleApply]
  /\ selectedEvent = {}
  /\ creating = {}
  /\ alert = {}
  /\ upload = {}

Init ==
  /\ InitProvider
  /\ PlacementsClosed
  /\ script = << >>
  /\ trace = << >>


\* --------------------------------------------------------- call bookkeeping
Free(c) == calls[c].kind = "idle"
\* A new call takes the lowest free slot (slots are interchangeable).
LowestFree(c) == Free(c) /\ \A d \in Slots : d < c => ~Free(d)
\* An in-flight guard that also holds back the continuations of the calls in
\* flight.
SchedulableWhenAlone ==
  /\ mounted
  /\ sync = "none"
  /\ Cardinality({c \in Slots : ~Free(c)}) <= 1

\* An event handler or a continuation runs only when no synchronous segment is
\* running, and after the mount effect.
Schedulable == mounted /\ sync = "none"

\* before: the identity and the students table when the call was issued.
NewCall(kind, pc, args) ==
  [kind |-> kind, pc |-> pc, args |-> args, data |-> {}, faulted |-> FALSE,
   before |-> [user |-> user, userType |-> userType, students |-> students]]

\* What the caller's `await signInX(...)` receives, with the call's record:
\* data is the row the call read or inserted, faulted whether a directory
\* request of the call failed.
Result(call, success, error) ==
  [kind |-> call.kind, args |-> call.args, success |-> success, error |-> error,
   data |-> call.data, faulted |-> call.faulted, before |-> call.before]

\* A failure return that also clears the identity (setUser(null) on failure).
ReturnFailureClearsIdentity(c, call, error) ==
  /\ calls' = [calls EXCEPT ![c] = IdleCall]
  /\ ret' = {Result(call, FALSE, error)}
  /\ user' = {}
  /\ userType' = "null"
  /\ UNCHANGED sync

\* `return { success: false, error }`: no setter of the identity runs.
ReturnFailure(c, call, error) ==
  /\ calls' = [calls EXCEPT ![c] = IdleCall]
  /\ ret' = {Result(call, FALSE, error)}
  /\ UNCHANGED <<user, userType, sync>>

\* A catch block that throws again: the call ends and its caller gets no
\* result.
CaughtAndRethrown(c, call, error) ==
  /\ loading' = FALSE
  /\ calls' = [calls EXCEPT ![c] = IdleCall]
  /\ ret' = {}
  /\ UNCHANGED <<user, userType, sync>>

\* The catch block: setLoading(false), then the failure result.
Caught(c, call, error) ==
  /\ loading' = FALSE
  /\ ReturnFailure(c, call, error)

\* A failure return inside the try block: loading keeps the value it has.
Returned(c, call, error) ==
  /\ UNCHANGED loading
  /\ ReturnFailure(c, call, error)

Faulted(call) == [call EXCEPT !.faulted = TRUE]

\* A commit that keeps the identity of a client that is already signed in
\* (setUser(prev => prev ?? u)).
CommitIdentityIfSignedOut(c, call, u) ==
  /\ user' = IF user = {} THEN {u} ELSE user
  /\ userType' = IF user = {} THEN u.type ELSE userType
  /\ loading' = FALSE
  /\ calls' = [calls EXCEPT ![c] = IdleCall]
  /\ ret' = {Result(call, TRUE, "")}
  /\ sync' = "none"

\* A commit that is skipped when the identity changed while the call was in
\* flight (a stale-response guard); the call still returns success.
CommitIdentityUnlessStale(c, call, u) ==
  /\ user' = IF user = call.before.user THEN {u} ELSE user
  /\ userType' = IF user = call.before.user THEN u.type ELSE userType
  /\ loading' = FALSE
  /\ calls' = [calls EXCEPT ![c] = IdleCall]
  /\ ret' = {Result(call, TRUE, "")}
  /\ sync' = "none"

\* setUser(u); setUserType(u.type); setLoading(false); return { success: true }
\* One render after the three setters (batched), or a render after setUser with
\* the other two setters still to run (unbatched).
CommitIdentity(c, call, u) ==
  \E batched \in BOOLEAN :
    /\ user' = {u}
    /\ IF batched
       THEN /\ userType' = u.type
            /\ loading' = FALSE
            /\ calls' = [calls EXCEPT ![c] = IdleCall]
            /\ ret' = {Result(call, TRUE, "")}
            /\ sync' = "none"
       ELSE /\ UNCHANGED <<userType, loading>>
            /\ calls' = [calls EXCEPT ![c] = [call EXCEPT !.pc = "setUserType"]]
            /\ ret' = {}
            /\ sync' = "call"

\* -------------------------------------------------------------- checkSession
\* A start-up check that leaves loading as it is.
CheckSessionKeepsLoading ==
  /\ ~mounted
  /\ mounted' = TRUE
  /\ ret' = {}
  /\ UNCHANGED <<user, userType, loading, env, admin_users, students, calls, sync>>

\* useEffect(() => { checkSession(); }, []): setLoading(false), nothing else.
CheckSession ==
  /\ ~mounted
  /\ mounted' = TRUE
  /\ loading' = FALSE
  /\ ret' = {}
  /\ UNCHANGED <<user, userType, env, admin_users, students, calls, sync>>

\* --------------------------------------------------------------- signInAdmin
\* An administrator identity whose adminCode is taken from the email column.
AdminUserWithEmailAsCode(row) ==
  [id |-> row.id, name |-> row.name, email |-> row.email, type |-> "admin",
   adminCode |-> row.email]

AdminUser(row) ==
  [id |-> row.id, name |-> row.name, email |-> row.email, type |-> "admin",
   adminCode |-> row.admin_code]

\* .from('admin_users').select('*').eq('admin_code', code).single()
AdminLookup(code) == Single({a \in admin_users : a.admin_code = code})

\* The password comparison left out.
PasswordNotCompared(row, password) == FALSE

\* data.password_hash !== password
PasswordMismatch(row, password) == row.password_hash # password

\* The error signInAdmin returns for the `data` of the lookup; "" when it goes
\* on to commit.
AdminVerdict(data, password) ==
  IF data = {} THEN MsgInvalidAdminCode
  ELSE IF \E row \in data : PasswordMismatch(row, password) THEN MsgInvalidPassword
  ELSE ""

\* setLoading(true); the `!supabase` test never fires (the module always exports
\* a client); the connection test query is sent.
SignInAdmin(c, code, password) ==
  /\ Schedulable
  /\ LowestFree(c)
  /\ loading' = TRUE
  /\ calls' = [calls EXCEPT ![c] =
                 NewCall("signInAdmin", "test", [code |-> code, password |-> password])]
  /\ ret' = {}
  /\ UNCHANGED <<user, userType, mounted, env, admin_users, students, sync>>

\* The connection test query resolves.
AdminTestResponse(c) ==
  /\ Schedulable
  /\ calls[c].kind = "signInAdmin" /\ calls[c].pc = "test"
  /\ \E o \in Outcomes :
       CASE o = "ok" ->
              /\ calls' = [calls EXCEPT ![c].pc = "lookup"]
              /\ ret' = {}
              /\ UNCHANGED <<user, userType, loading, sync>>
         [] o = "error" -> Returned(c, Faulted(calls[c]), MsgDbConnection)
         [] Throws(o) -> Caught(c, Faulted(calls[c]), MsgLoginFailed)
  /\ UNCHANGED <<mounted, env, admin_users, students>>

\* The lookup by admin_code resolves (an error leaves data = null); the password
\* is compared; the identity is committed.
AdminLookupResponse(c) ==
  /\ Schedulable
  /\ calls[c].kind = "signInAdmin" /\ calls[c].pc = "lookup"
  /\ \E o \in Outcomes :
       LET call == IF o = "ok"
                   THEN [calls[c] EXCEPT !.data = AdminLookup(calls[c].args.code)]
                   ELSE Faulted(calls[c])
           verdict == AdminVerdict(call.data, call.args.password)
       IN  IF Throws(o) THEN Caught(c, call, MsgLoginFailed)
           ELSE IF verdict # "" THEN Returned(c, call, verdict)
           ELSE \E row \in call.data : CommitIdentity(c, call, AdminUser(row))
  /\ UNCHANGED <<mounted, env, admin_users, students>>

\* ------------------------------------------------- the rest of a commit
\* setUserType('admin') / setUserType('student') of an unbatched commit.
SetUserType(c) ==
  /\ sync = "call"
  /\ calls[c].pc = "setUserType"
  /\ userType' = (IF calls[c].kind = "signInAdmin" THEN "admin" ELSE "student")
  /\ calls' = [calls EXCEPT ![c].pc = "setLoading"]
  /\ ret' = {}
  /\ UNCHANGED <<user, loading, mounted, env, admin_users, students, sync>>

\* setLoading(false); return { success: true } of an unbatched commit.
SetLoadingFalse(c) ==
  /\ sync = "call"
  /\ calls[c].pc = "setLoading"
  /\ loading' = FALSE
  /\ calls' = [calls EXCEPT ![c] = IdleCall]
  /\ ret' = {Result(calls[c], TRUE, "")}
  /\ sync' = "none"
  /\ UNCHANGED <<user, userType, mounted, env, admin_users, students>>

\* ------------------------------------------------------------------- signOut
SignOutResult ==
  [kind |-> "signOut", args |-> [none |-> TRUE], success |-> TRUE, error |-> "",
   data |-> {}, faulted |-> FALSE, before |-> NoSnapshot]

\* A signOut that also resets the loading flag.
SignOutResetsLoading ==
  /\ Schedulable
  /\ user' = {}
  /\ userType' = "null"
  /\ loading' = FALSE
  /\ ret' = {SignOutResult}
  /\ UNCHANGED <<mounted, env, admin_users, students, calls, sync>>

\* A signOut that clears user and forgets userType.
SignOutKeepsUserType ==
  /\ Schedulable
  /\ user' = {}
  /\ ret' = {SignOutResult}
  /\ UNCHANGED <<userType, loading, mounted, env, admin_users, students, calls, sync>>

\* setUser(null); setUserType(null): no directory request, loading untouched.
SignOut ==
  /\ Schedulable
  /\ user' = {}
  /\ \E batched \in BOOLEAN :
       IF batched
       THEN userType' = "null" /\ ret' = {SignOutResult} /\ sync' = "none"
       ELSE userType' = userType /\ ret' = {} /\ sync' = "signOut"
  /\ UNCHANGED <<loading, mounted, env, admin_users, students, calls>>

\* setUserType(null) of an unbatched signOut.
SignOutSetUserType ==
  /\ sync = "signOut"
  /\ userType' = "null"
  /\ ret' = {SignOutResult}
  /\ sync' = "none"
  /\ UNCHANGED <<user, loading, mounted, env, admin_users, students, calls>>

\* ------------------------------------------------------------- signInStudent
\* A student identity built without its rollNo.
StudentUserWithoutRollNo(row) ==
  [id |-> row.id, name |-> row.name, email |-> row.email, type |-> "student",
   uid |-> row.uid]

StudentUser(row) ==
  [id |-> row.id, name |-> row.name, email |-> row.email, type |-> "student",
   uid |-> row.uid, rollNo |-> row.roll_no]

\* supabaseUrl.includes('your-project-id') || supabaseKey.includes('your-anon-key') ...
PlaceholderEnv == env = "placeholder"

\* The lookup with the uid compared against the wrong column:
\* .eq('roll_no', uid).eq('email', email).single()
StudentLookupWrongColumn(uid, email) ==
  Single({s \in students : s.roll_no = uid /\ s.email = email})

\* The lookup with the email filter left out: .eq('uid', uid).single()
StudentLookupByUidOnly(uid, email) ==
  Single({s \in students : s.uid = uid})

\* .from('students').select('*').eq('uid', uid).eq('email', email).single()
StudentLookup(uid, email) ==
  Single({s \in students : s.uid = uid /\ s.email = email})

\* The catch block of signInStudent: a TypeError of fetch has its own message.
SignInStudentCaught(o) ==
  IF o = "throwFetch" THEN MsgCannotConnectSignIn ELSE MsgLoginFailed

\* setLoading(true); the placeholder test returns at once; else the lookup is sent.
SignInStudent(c, uid, email) ==
  /\ Schedulable
  /\ LowestFree(c)
  /\ loading' = TRUE
  /\ LET call == NewCall("signInStudent", "lookup", [uid |-> uid, email |-> email])
     IN  IF PlaceholderEnv
         THEN ReturnFailure(c, call, MsgConfigureSignIn)
         ELSE /\ calls' = [calls EXCEPT ![c] = call]
              /\ ret' = {}
              /\ UNCHANGED <<user, userType, sync>>
  /\ UNCHANGED <<mounted, env, admin_users, students>>

\* The lookup by (uid, email) resolves (an error leaves data = null); the
\* identity is committed.
StudentLookupResponse(c) ==
  /\ Schedulable
  /\ calls[c].kind = "signInStudent" /\ calls[c].pc = "lookup"
  /\ \E o \in Outcomes :
       LET call == IF o = "ok"
                   THEN [calls[c] EXCEPT !.data = StudentLookup(calls[c].args.uid,
                                                                calls[c].args.email)]
                   ELSE Faulted(calls[c])
       IN  IF Throws(o) THEN Caught(c, call, SignInStudentCaught(o))
           ELSE IF call.data = {} THEN Returned(c, call, MsgInvalidCredentials)
           ELSE \E row \in call.data : CommitIdentity(c, call, StudentUser(row))
  /\ UNCHANGED <<mounted, env, admin_users, students>>

\* ----------------------------------------------------------- registerStudent
\* The existence check left out.
ExistingStudentNotChecked(uid, email) == {}

\* .from('students').select('id').or(`uid.eq.${uid},email.eq.${email}`).single()
ExistingStudent(uid, email) ==
  Single({s \in students : s.uid = uid \/ s.email = email})

\* The insert with roll_no filled from the uid field of the form.
NewStudentRowRollFromUid(data) ==
  [id |-> GenId(students), name |-> data.name, uid |-> data.uid,
   email |-> data.email, roll_no |-> data.uid]

\* The row of .insert({name, uid, email, roll_no, ...}) with its generated id.
NewStudentRow(data) ==
  [id |-> GenId(students), name |-> data.name, uid |-> data.uid,
   email |-> data.email, roll_no |-> data.rollNo]

\* A table without its UNIQUE constraints.
InsertAlwaysAccepted(row) == TRUE

\* The insert is rejected when a UNIQUE column of the table would repeat.
InsertAccepted(row) == StudentsTableOk(students \cup {row})

\* A write that replaces the row holding the uid when the insert is refused
\* (an upsert on uid).
StudentsAfterUpsert(stored, row) ==
  IF stored THEN students \cup {row}
  ELSE {s \in students : s.uid # row.uid} \cup {row}

\* The table after .insert(row): one more row when the insert was stored.
StudentsAfterInsert(stored, row) ==
  IF stored THEN students \cup {row} ELSE students

\* The catch block of registerStudent (both TypeError tests give a connection
\* message, the first one wins).
RegisterCaught(o) ==
  IF o = "throwFetch" THEN MsgCannotConnectRegister ELSE MsgRegistrationFailed

\* setLoading(true); the placeholder test returns at once; else the existence
\* check is sent.
RegisterStudent(c, data) ==
  /\ Schedulable
  /\ LowestFree(c)
  /\ loading' = TRUE
  /\ LET call == NewCall("registerStudent", "check", data)
     IN  IF PlaceholderEnv
         THEN ReturnFailure(c, call, MsgConfigureRegister)
         ELSE /\ calls' = [calls EXCEPT ![c] = call]
              /\ ret' = {}
              /\ UNCHANGED <<user, userType, sync>>
  /\ UNCHANGED <<mounted, env, admin_users, students>>

\* The existence check resolves (its error is not read: only `data`).
RegisterCheckResponse(c) ==
  /\ Schedulable
  /\ calls[c].kind = "registerStudent" /\ calls[c].pc = "check"
  /\ \E o \in Outcomes :
       LET existingStudent == IF o = "ok"
                              THEN ExistingStudent(calls[c].args.uid, calls[c].args.email)
                              ELSE {}
           call == IF o = "ok" THEN calls[c] ELSE Faulted(calls[c])
       IN  IF Throws(o) THEN Caught(c, call, RegisterCaught(o))
           ELSE IF existingStudent # {} THEN Returned(c, call, MsgConflict)
           ELSE /\ calls' = [calls EXCEPT ![c] = [call EXCEPT !.pc = "insert"]]
                /\ ret' = {}
                /\ UNCHANGED <<user, userType, loading, sync>>
  /\ UNCHANGED <<mounted, env, admin_users, students>>

\* The insert resolves; the identity is built from the inserted row and committed.
\* The mock client of an unconfigured build answers data = null and stores nothing.
RegisterInsertResponse(c) ==
  /\ Schedulable
  /\ calls[c].kind = "registerStudent" /\ calls[c].pc = "insert"
  /\ \E o \in Outcomes :
       LET row == NewStudentRow(calls[c].args)
           stored == o = "ok" /\ env = "configured" /\ InsertAccepted(row)
           call == IF stored THEN [calls[c] EXCEPT !.data = {row}]
                   ELSE IF o = "ok" THEN calls[c] ELSE Faulted(calls[c])
       IN  /\ students' = StudentsAfterInsert(stored, row)
           /\ IF Throws(o) THEN Caught(c, call, RegisterCaught(o))
              ELSE IF call.data = {} THEN Returned(c, call, MsgRegistrationFailed)
              ELSE \E newStudent \in call.data :
                     CommitIdentity(c, call, StudentUser(newStudent))
  /\ UNCHANGED <<mounted, env, admin_users>>

\* ------------------------------------------------------------ specifications
AdminArgs == [code : Codes, password : Passwords]
StudentArgs == [uid : Uids, email : Emails]
RegisterData == [name : Names, uid : Uids, email : Emails, rollNo : RollNos]

\* The scripted client's variables are not used by the other clients, and no
\* step of the provider touches the placements screens.
NoScript == UNCHANGED <<script, trace>> /\ UNCHANGED placementVars

\* A client that awaits every operation before it issues the next one
\* (`await signOut()`, `const result = await signInStudent(...)`).
Next ==
  \/ CheckSession /\ NoScript
  \/ Free(1) /\ SignOut /\ NoScript
  \/ SignOutSetUserType /\ NoScript
  \/ \E a \in AdminArgs : SignInAdmin(1, a.code, a.password) /\ NoScript
  \/ AdminTestResponse(1) /\ NoScript
  \/ AdminLookupResponse(1) /\ NoScript
  \/ \E a \in StudentArgs : SignInStudent(1, a.uid, a.email) /\ NoScript
  \/ StudentLookupResponse(1) /\ NoScript
  \/ \E data \in RegisterData : RegisterStudent(1, data) /\ NoScript
  \/ RegisterCheckResponse(1) /\ NoScript
  \/ RegisterInsertResponse(1) /\ NoScript
  \/ SetUserType(1) /\ NoScript
  \/ SetLoadingFalse(1) /\ NoScript

Spec == Init /\ [][Next]_vars


\* -------------------------------------------------------- concurrent client
\* A client that does not wait: handlers fire while calls are in flight (a
\* double tap, a signOut during a sign-in), up to MaxInFlight calls at a time.
\* The directory is the configured one, with the administrators and one
\* student, and the inputs are a few that collide.
ConcAdminArgs == {[code |-> "ADMIN001", password |-> "admin123"]}
ConcStudentArgs == {[uid |-> "TYIT001", email |-> "john@college.edu"]}
ConcRegisterData ==
  { [name |-> "Asha", uid |-> "TYIT002", email |-> "jane@college.edu", rollNo |-> "R2"],
    [name |-> "Asha", uid |-> "TYIT002", email |-> "asha@college.edu", rollNo |-> "R2"] }

ConcInit ==
  /\ InitProvider
  /\ env = "configured"
  /\ admin_users = AdminRecords
  /\ students = {s \in SeedStudents : s.uid = "TYIT001"}
  /\ PlacementsClosed
  /\ script = << >>
  /\ trace = << >>

ConcNext ==
  \/ CheckSession /\ NoScript
  \/ SignOut /\ NoScript
  \/ SignOutSetUserType /\ NoScript
  \/ \E c \in Slots, a \in ConcAdminArgs : SignInAdmin(c, a.code, a.password) /\ NoScript
  \/ \E c \in Slots : AdminTestResponse(c) /\ NoScript
  \/ \E c \in Slots : AdminLookupResponse(c) /\ NoScript
  \/ \E c \in Slots, a \in ConcStudentArgs : SignInStudent(c, a.uid, a.email) /\ NoScript
  \/ \E c \in Slots : StudentLookupResponse(c) /\ NoScript
  \/ \E c \in Slots, data \in ConcRegisterData : RegisterStudent(c, data) /\ NoScript
  \/ \E c \in Slots : RegisterCheckResponse(c) /\ NoScript
  \/ \E c \in Slots : RegisterInsertResponse(c) /\ NoScript
  \/ \E c \in Slots : SetUserType(c) /\ NoScript
  \/ \E c \in Slots : SetLoadingFalse(c) /\ NoScript

ConcSpec == ConcInit /\ [][ConcNext]_vars

\* The step a call in slot c takes when its pending directory request settles,
\* and the setters that follow setUser in an unbatched commit.
Settle(c) ==
  \/ AdminTestResponse(c)
  \/ AdminLookupResponse(c)
  \/ StudentLookupResponse(c)
  \/ RegisterCheckResponse(c)
  \/ RegisterInsertResponse(c)
  \/ SetUserType(c)
  \/ SetLoadingFalse(c)

\* Every directory request settles (answer, error or exception) and its
\* continuation runs; a synchronous segment runs to its end.  The continuation
\* of a settled request waits while another handler's synchronous segment
\* runs, which is why its fairness is strong; nothing obliges the client
\* to invoke anything.
ConcFairness ==
  /\ \A c \in Slots : SF_vars(Settle(c) /\ NoScript)
  /\ WF_vars(SignOutSetUserType /\ NoScript)

ConcLiveSpec == ConcSpec /\ ConcFairness

\* ---------------------------------------------------------- scripted client
\* A client that runs one scenario: it issues the operations of `script` one
\* after the other, each after the previous one has returned, and keeps every
\* result with the state the provider shows when the result is returned.
Op(kind, args) == [kind |-> kind, args |-> args]

\* registerStudent(f); signOut(); signInStudent(f.uid, f.email)
RoundTrip(f) ==
  << Op("registerStudent", f), Op("signOut", [none |-> TRUE]),
     Op("signInStudent", [uid |-> f.uid, email |-> f.email]) >>

\* signInAdmin(c1, p); signInAdmin(c2, p)
AdminTwice(c1, c2, p) ==
  << Op("signInAdmin", [code |-> c1, password |-> p]),
     Op("signInAdmin", [code |-> c2, password |-> p]) >>

\* registerStudent(f); registerStudent(f)
RegisterTwice(f) == << Op("registerStudent", f), Op("registerStudent", f) >>

\* The registration forms with at least one field left empty.
IncompleteForms ==
  { f \in [name : Names \cup {""}, uid : Uids \cup {""},
           email : Emails \cup {""}, rollNo : RollNos \cup {""}] :
      "" \in {f.name, f.uid, f.email, f.rollNo} }

\* registerStudent(f)
RegisterOnce(f) == << Op("registerStudent", f) >>

Scenarios ==
  {RoundTrip(f) : f \in RegisterData}
    \cup {RegisterTwice(f) : f \in RegisterData}
    \cup {RegisterOnce(f) : f \in IncompleteForms}
    \cup {AdminTwice(a.code, c2, a.password) : a \in AdminArgs, c2 \in Codes}

ScriptInit ==
  /\ InitProvider
  /\ PlacementsClosed
  /\ script \in Scenarios
  /\ trace = << >>

Observed(r) ==
  [op |-> r, user |-> user', userType |-> userType', loading |-> loading']

Log ==
  /\ trace' = IF ret' = {} THEN trace ELSE Append(trace, Observed(CHOOSE r \in ret' : TRUE))
  /\ UNCHANGED placementVars

NextOp(kind) == script # << >> /\ Head(script).kind = kind /\ Free(1)
Issued == script' = Tail(script) /\ Log
Continued == script' = script /\ Log

ScriptNext ==
  \/ CheckSession /\ Continued
  \/ NextOp("signOut") /\ SignOut /\ Issued
  \/ SignOutSetUserType /\ Continued
  \/ NextOp("signInAdmin")
       /\ SignInAdmin(1, Head(script).args.code, Head(script).args.password)
       /\ Issued
  \/ AdminTestResponse(1) /\ Continued
  \/ AdminLookupResponse(1) /\ Continued
  \/ NextOp("signInStudent")
       /\ SignInStudent(1, Head(script).args.uid, Head(script).args.email)
       /\ Issued
  \/ StudentLookupResponse(1) /\ Continued
  \/ NextOp("registerStudent") /\ RegisterStudent(1, Head(script).args) /\ Issued
  \/ RegisterCheckResponse(1) /\ Continued
  \/ RegisterInsertResponse(1) /\ Continued
  \/ SetUserType(1) /\ Continued
  \/ SetLoadingFalse(1) /\ Continued

ScriptSpec == ScriptInit /\ [][ScriptNext]_vars

\* ------------------------------------------------------------ racing client
\* A client that fires the operations of `script` in order without awaiting
\* any of them (two taps, two screens, a sign-out while a sign-in is pending).  The script is kept as it is: the operation
\* to issue next is the one after those already issued, and the results are
\* kept in `trace` in the order the calls return.
RaceAdminArgs ==
  { [code |-> "ADMIN001", password |-> "admin123"],
    [code |-> "ADMIN002", password |-> "secret2"] }
RaceOps ==
  {Op("signInAdmin", a) : a \in RaceAdminArgs}
    \cup {Op("signInStudent", a) : a \in StudentArgs}
    \cup {Op("registerStudent", f) : f \in ConcRegisterData}

RaceInit ==
  /\ InitProvider
  /\ PlacementsClosed
  /\ env = "configured"
  /\ admin_users = AdminRecords
  /\ students \in {{s \in SeedStudents : s.uid = "TYIT001"}, SeedStudents}
  /\ script \in {<<a, b>> : a \in RaceOps, b \in RaceOps}
                \cup {<<a, Op("signOut", [none |-> TRUE])>> : a \in RaceOps}
  /\ trace = << >>

InFlight == {c \in Slots : ~Free(c)}
IssuedSoFar == Len(trace) + Cardinality(InFlight)
RaceOp(kind) == IssuedSoFar < Len(script) /\ script[IssuedSoFar + 1].kind = kind
RaceArgs == script[IssuedSoFar + 1].args

RaceNext ==
  \/ CheckSession /\ Continued
  \/ RaceOp("signOut") /\ SignOut /\ Continued
  \/ SignOutSetUserType /\ Continued
  \/ \E c \in Slots :
       RaceOp("signInAdmin") /\ SignInAdmin(c, RaceArgs.code, RaceArgs.password) /\ Continued
  \/ \E c \in Slots : AdminTestResponse(c) /\ Continued
  \/ \E c \in Slots : AdminLookupResponse(c) /\ Continued
  \/ \E c \in Slots :
       RaceOp("signInStudent") /\ SignInStudent(c, RaceArgs.uid, RaceArgs.email) /\ Continued
  \/ \E c \in Slots : StudentLookupResponse(c) /\ Continued
  \/ \E c \in Slots : RaceOp("registerStudent") /\ RegisterStudent(c, RaceArgs) /\ Continued
  \/ \E c \in Slots : RegisterCheckResponse(c) /\ Continued
  \/ \E c \in Slots : RegisterInsertResponse(c) /\ Continued
  \/ \E c \in Slots : SetUserType(c) /\ Continued
  \/ \E c \in Slots : SetLoadingFalse(c) /\ Continued

RaceSpec == RaceInit /\ [][RaceNext]_vars


\* ======================================================================
\* The placements screens: a student applies for a placement event and
\* uploads the documents it asks for; an admin creates the events.
\* ======================================================================

\* Company names are sequences of characters: a lower-case letter, an
\* upper-case letter and a space stand for their classes.
Chars == {"a", "Z", " "}

CompanyNames == UNION {[1..n -> Chars] : n \in 1..MaxNameLen}

\* String.prototype.toLowerCase.
toLowerCase(name) == [i \in DOMAIN name |-> IF name[i] = "Z" THEN "z" ELSE name[i]]

\* The characters of Chars and of their lower-case forms that [a-z0-9] matches,
\* without and with the flag i.
MatchesLowerAlnum == {"a", "z"}
MatchesAlnumIgnoreCase == {"a", "z", "Z"}

PlacementSuffix == <<"-", "p", "l", "a", "c", "e", "m", "e", "n", "t">>
DocumentsSuffix == <<"-", "d", "o", "c", "u", "m", "e", "n", "t", "s">>

\* createCompanyBucket: companyName.toLowerCase().replace(/[^a-z0-9]/g, '-')
\* + '-placement'.
bucketName(companyName) ==
  LET lower == toLowerCase(companyName)
  IN [i \in DOMAIN lower |-> IF lower[i] \in MatchesLowerAlnum THEN lower[i] ELSE "-"]
       \o PlacementSuffix

\* uploadRequirementDocument of app/(student)/placements.tsx:
\* `${company_name.toLowerCase().replace(/[^a-z0-9]/gi, '_')}-placement-documents`.
companyBucket(company_name) ==
  LET lower == toLowerCase(company_name)
  IN [i \in DOMAIN lower |-> IF lower[i] \in MatchesAlnumIgnoreCase THEN lower[i] ELSE "_"]
       \o PlacementSuffix \o DocumentsSuffix

\* The bucket an upload for the selected event goes to: the screen of
\* app/(student)/placements.tsx derives it from the company name, the other
\* revision of the screen reads the event's bucket_name.
UploadBucket(event) ==
  IF revision = "byCompany" THEN companyBucket(event.company_name)
  ELSE event.bucket_name

\* ------------------------------------------------------------- the tables
EventIds == <<"E1", "E2">>

PlacementEvent(id, company, bucket) ==
  [id |-> id, company_name |-> company, bucket_name |-> bucket]

\* Two events that exist when the student screen opens.
SeedEvents ==
  { PlacementEvent("E1", <<"a">>, bucketName(<<"a">>)),
    PlacementEvent("E2", <<"Z">>, bucketName(<<"Z">>)) }

John == CHOOSE s \in SeedStudents : s.uid = "TYIT001"

Profile(full_name, class) ==
  [student_id |-> John.id, full_name |-> full_name, uid |-> John.uid,
   roll_no |-> John.roll_no, class |-> class]

\* The student_profiles tables the screen is opened with: no profile, a
\* complete one, one without class, one without full_name.
ProfileTables ==
  { {}, {Profile("John", "TYIT")}, {Profile("John", "")}, {Profile("", "TYIT")} }

\* A dropped conjunct: class is not looked at.
checkProfileCompleteWithoutClass(id, o) ==
  /\ o = "ok"
  /\ LET data == Single({p \in student_profiles : p.student_id = id})
     IN /\ data # {}
        /\ \A p \in data : p.full_name # "" /\ p.uid # "" /\ p.roll_no # ""

\* checkProfileComplete: the profile row of the student, .single(); false on
\* an error, on no row and in the catch block, else whether the four fields
\* are all truthy.
checkProfileComplete(id, o) ==
  /\ o = "ok"
  /\ LET data == Single({p \in student_profiles : p.student_id = id})
     IN /\ data # {}
        /\ \A p \in data :
             p.full_name # "" /\ p.uid # "" /\ p.roll_no # "" /\ p.class # ""

\* The row applyForPlacement inserts; the table generates the id.
ApplicationRow(event, student) ==
  [id |-> Cardinality(placement_applications) + 1, placement_event_id |-> event,
   student_id |-> student, application_status |-> "pending"]

\* Policy "Students can insert own applications":
\* WITH CHECK (student_id = auth.uid()::uuid).
InsertPolicyAdmits(row) == row.student_id \in session

\* An index on the primary key only.
ApplicationsUniqueById(rows) ==
  \A a, b \in rows : a.id = b.id => a = b

\* PRIMARY KEY (id) and UNIQUE(placement_event_id, student_id).
ApplicationsUnique(rows) ==
  \A a, b \in rows :
    \/ a = b
    \/ /\ a.id # b.id
       /\ ~(a.placement_event_id = b.placement_event_id /\ a.student_id = b.student_id)

\* The answer of the table to .insert(row): the policy is checked before the
\* row reaches the unique index.
InsertAnswer(row) ==
  IF ~InsertPolicyAdmits(row) THEN "42501"
  ELSE IF ~ApplicationsUnique(placement_applications \cup {row}) THEN "23505"
  ELSE "stored"

\* ------------------------------------------------- applyForPlacement
ApplyFree(c) == applies[c].pc = "idle"
LowestFreeApply(c) == ApplyFree(c) /\ \A d \in Slots : d < c => ~ApplyFree(d)

Shown(event, title, code) == {[event |-> event, title |-> title, code |-> code]}

\* The error path without the finally block.
ExitKeepsApplying(c) ==
  /\ applies' = [applies EXCEPT ![c] = IdleApply]
  /\ UNCHANGED applying

\* Leaving the try block: finally { setApplying(null) }.
Exit(c) ==
  /\ applies' = [applies EXCEPT ![c] = IdleApply]
  /\ applying' = "null"

\* applyForPlacement(eventId) up to its first await: nothing happens without
\* a signed-in user, else the profile is asked for.
ApplyForPlacement(c, e) ==
  /\ mounted
  /\ LowestFreeApply(c)
  /\ IF user = {}
       THEN /\ alert' = Shown(e, "none", "none")
            /\ UNCHANGED applies
       ELSE /\ alert' = {}
            /\ applies' = [applies EXCEPT ![c] =
                 [pc |-> "profile", event |-> e,
                  student |-> (CHOOSE u \in user : TRUE).id]]
  /\ upload' = {}
  /\ UNCHANGED <<session, revision, student_profiles, placement_events,
                 placement_applications, submissions, buckets, applying,
                 selectedEvent, creating>>
  /\ UNCHANGED authVars

\* checkProfileComplete resolves: an incomplete profile ends the call before
\* the try block; a complete one sets the flag and sends the insert.
ProfileResponse(c) ==
  /\ applies[c].pc = "profile"
  /\ \E o \in Outcomes :
       IF checkProfileComplete(applies[c].student, o)
         THEN /\ applying' = applies[c].event
              /\ applies' = [applies EXCEPT ![c].pc = "insert"]
              /\ alert' = {}
         ELSE /\ applies' = [applies EXCEPT ![c] = IdleApply]
              /\ alert' = Shown(applies[c].event, "Profile Incomplete", "none")
              /\ UNCHANGED applying
  /\ upload' = {}
  /\ UNCHANGED <<session, revision, student_profiles, placement_events,
                 placement_applications, submissions, buckets, selectedEvent,
                 creating>>
  /\ UNCHANGED authVars

\* The insert resolves.  23505 is reported as 'Already Applied', any other
\* error and any exception as 'Error'; after a stored row the call goes on to
\* load the requirements of the event (the screen's events are the table's).
ApplicationInsertResponse(c) ==
  /\ applies[c].pc = "insert"
  /\ \E o \in Outcomes :
       LET e == applies[c].event
           row == ApplicationRow(e, applies[c].student)
           answer == IF o = "ok" THEN InsertAnswer(row)
                     ELSE IF o = "error" THEN "error" ELSE "thrown"
           found == {ev \in placement_events : ev.id = e}
       IN CASE answer = "stored" ->
                 /\ placement_applications' = placement_applications \cup {row}
                 /\ alert' = Shown(e, "Success", "none")
                 /\ IF found # {}
                      THEN /\ selectedEvent' = found
                           /\ applies' = [applies EXCEPT ![c].pc = "modal"]
                           /\ UNCHANGED applying
                      ELSE /\ Exit(c)
                           /\ UNCHANGED selectedEvent
            [] answer = "23505" ->
                 /\ alert' = Shown(e, "Already Applied", answer)
                 /\ Exit(c)
                 /\ UNCHANGED <<placement_applications, selectedEvent>>
            [] OTHER ->
                 /\ alert' = Shown(e, "Error", answer)
                 /\ Exit(c)
                 /\ UNCHANGED <<placement_applications, selectedEvent>>
  /\ upload' = {}
  /\ UNCHANGED <<session, revision, student_profiles, placement_events,
                 submissions, buckets, creating>>
  /\ UNCHANGED authVars

\* loadEventRequirements and loadMyRequirementSubmissions resolve (both catch
\* their own errors), the modal is shown and the finally block runs.
RequirementsLoaded(c) ==
  /\ applies[c].pc = "modal"
  /\ Exit(c)
  /\ alert' = {}
  /\ upload' = {}
  /\ UNCHANGED <<session, revision, student_profiles, placement_events,
                 placement_applications, submissions, buckets, selectedEvent,
                 creating>>
  /\ UNCHANGED authVars

\* The student screen with two events to apply for.  The profile, and whether
\* the Supabase client holds a session of the student (the provider's sign-in
\* opens none), are drawn here.
ApplyInit ==
  /\ user \in {{}, {StudentUser(John)}}
  /\ userType = IF user = {} THEN "null" ELSE "student"
  /\ loading = FALSE
  /\ mounted = TRUE
  /\ env = "configured"
  /\ admin_users = AdminRecords
  /\ students = SeedStudents
  /\ calls = [c \in Slots |-> IdleCall]
  /\ sync = "none"
  /\ ret = {}
  /\ script = << >>
  /\ trace = << >>
  /\ session \in {{}, {John.id}}
  /\ revision = "byCompany"
  /\ student_profiles \in ProfileTables
  /\ placement_events = SeedEvents
  /\ placement_applications = {}
  /\ submissions = {}
  /\ buckets = {e.bucket_name : e \in SeedEvents}
  /\ applying = "null"
  /\ applies = [c \in Slots |-> IdleApply]
  /\ alert = {}
  /\ upload = {}
  /\ selectedEvent = {}
  /\ creating = {}

ApplyNext ==
  \/ \E c \in Slots : \E e \in {"E1", "E2"} : ApplyForPlacement(c, e)
  \/ \E c \in Slots : ProfileResponse(c)
  \/ \E c \in Slots : ApplicationInsertResponse(c)
  \/ \E c \in Slots : RequirementsLoaded(c)

ApplySpec == ApplyInit /\ [][ApplyNext]_vars

\* ------------------------------------------------- createPlacementEvent
\* Number of placement events the admin creates.
MaxEvents == 1

\* The form of the create modal, by its company name ("" when left empty);
\* the other required fields are filled in and the dates are valid.
EventForms == CompanyNames \cup {<< >>}

\* createPlacementEvent up to createCompanyBucket's request; an empty
\* required field ends it with an alert.  (At most one bucket is left without
\* its event.)
CreatePlacementEvent(company_name) ==
  /\ creating = {}
  /\ Cardinality(placement_events) < MaxEvents
  /\ Cardinality(buckets) <= MaxEvents
  /\ IF company_name = << >>
       THEN /\ alert' = Shown("create", "Error", "required")
            /\ UNCHANGED creating
       ELSE /\ alert' = {}
            /\ creating' = {[pc |-> "bucket", company_name |-> company_name,
                             bucketName |-> << >>]}
  /\ upload' = {}
  /\ UNCHANGED <<session, revision, student_profiles, placement_events,
                 placement_applications, submissions, buckets, applying,
                 applies, selectedEvent>>
  /\ UNCHANGED authVars

\* createBucket resolves: the bucket exists afterwards (an 'already exists'
\* error is passed over) and the event is inserted with its name; any other
\* error ends the call.
CreateBucketResponse ==
  /\ \E cr \in creating : \E o \in Outcomes :
       /\ cr.pc = "bucket"
       /\ IF o = "ok"
            THEN /\ buckets' = buckets \cup {bucketName(cr.company_name)}
                 /\ creating' = {[cr EXCEPT !.pc = "event",
                                            !.bucketName = bucketName(cr.company_name)]}
                 /\ alert' = {}
            ELSE /\ creating' = {}
                 /\ alert' = Shown("create", "Error", "bucket")
                 /\ UNCHANGED buckets
  /\ upload' = {}
  /\ UNCHANGED <<session, revision, student_profiles, placement_events,
                 placement_applications, submissions, applying, applies,
                 selectedEvent>>
  /\ UNCHANGED authVars

\* The insert of the event resolves: the row carries bucket_name; on an error
\* the bucket stays without an event.
EventInsertResponse ==
  /\ \E cr \in creating : \E o \in Outcomes :
       /\ cr.pc = "event"
       /\ IF o = "ok"
            THEN /\ placement_events' = placement_events \cup
                      {PlacementEvent(EventIds[Cardinality(placement_events) + 1],
                                      cr.company_name, cr.bucketName)}
                 /\ alert' = Shown("create", "Success", "none")
            ELSE /\ alert' = Shown("create", "Error", "event")
                 /\ UNCHANGED placement_events
       /\ creating' = {}
  /\ upload' = {}
  /\ UNCHANGED <<session, revision, student_profiles, placement_applications,
                 submissions, buckets, applying, applies, selectedEvent>>
  /\ UNCHANGED authVars

\* ---------------------------------------------- uploadRequirementDocument
\* getApplicationStatus: the student's application for the event (the
\* screen's applications are the table's rows of the student).
getApplicationStatus(eventId) ==
  {a \in placement_applications :
     /\ a.placement_event_id = eventId
     /\ \E u \in user : a.student_id = u.id}

\* viewRequirements: selects the event when the student has applied for it.
ViewRequirements(e) ==
  /\ mounted
  /\ \E ev \in placement_events :
       /\ ev.id = e
       /\ getApplicationStatus(e) # {}
       /\ selectedEvent' = {ev}
  /\ alert' = {}
  /\ upload' = {}
  /\ UNCHANGED <<session, revision, student_profiles, placement_events,
                 placement_applications, submissions, buckets, applying,
                 applies, creating>>
  /\ UNCHANGED authVars

Requirements == {"resume"}

\* uploadRequirementDocument(requirementId): picks a file, uploads it to the
\* bucket of the selected event and records the submission.  The upload is
\* stored when the bucket exists and the request does not fail.
UploadRequirementDocument(requirementId) ==
  /\ mounted
  /\ user # {}
  /\ \E ev \in selectedEvent : \E application \in getApplicationStatus(ev.id) :
     \E picked \in BOOLEAN : \E o \in Outcomes : \E o2 \in Outcomes :
       IF ~picked
         THEN /\ alert' = {}
              /\ upload' = {}
              /\ UNCHANGED submissions
         ELSE LET bucket == UploadBucket(ev)
                  stored == o = "ok" /\ bucket \in buckets
              IN /\ upload' = {[event |-> ev.id, bucket |-> bucket, stored |-> stored]}
                 /\ IF Throws(o)
                      THEN /\ alert' = Shown(ev.id, "Error", "none")
                           /\ UNCHANGED submissions
                    ELSE IF ~stored
                      THEN /\ alert' = Shown(ev.id, "Upload Failed", "none")
                           /\ UNCHANGED submissions
                    ELSE IF o2 = "ok"
                      THEN /\ alert' = Shown(ev.id, "Success", "none")
                           /\ submissions' =
                                {s \in submissions :
                                   ~(s.placement_application_id = application.id
                                     /\ s.requirement_id = requirementId)}
                                \cup {[placement_application_id |-> application.id,
                                       requirement_id |-> requirementId,
                                       bucket |-> bucket]}
                      ELSE /\ alert' = Shown(ev.id, "Error", "none")
                           /\ UNCHANGED submissions
  /\ UNCHANGED <<session, revision, student_profiles, placement_events,
                 placement_applications, buckets, applying, applies,
                 selectedEvent, creating>>
  /\ UNCHANGED authVars

\* A student with a complete profile on one device and an admin on another;
\* no event exists yet.
BucketInit ==
  /\ user = {StudentUser(John)}
  /\ userType = "student"
  /\ loading = FALSE
  /\ mounted = TRUE
  /\ env = "configured"
  /\ admin_users = AdminRecords
  /\ students = SeedStudents
  /\ calls = [c \in Slots |-> IdleCall]
  /\ sync = "none"
  /\ ret = {}
  /\ script = << >>
  /\ trace = << >>
  /\ session = {John.id}
  /\ revision \in {"byCompany", "byBucketName"}
  /\ student_profiles = {Profile("John", "TYIT")}
  /\ placement_events = {}
  /\ placement_applications = {}
  /\ submissions = {}
  /\ buckets = {}
  /\ applying = "null"
  /\ applies = [c \in Slots |-> IdleApply]
  /\ alert = {}
  /\ upload = {}
  /\ selectedEvent = {}
  /\ creating = {}

BucketNext ==
  \/ \E form \in EventForms : CreatePlacementEvent(form)
  \/ CreateBucketResponse
  \/ EventInsertResponse
  \/ \E ev \in placement_events : ApplyForPlacement(1, ev.id)
  \/ ProfileResponse(1)
  \/ ApplicationInsertResponse(1)
  \/ RequirementsLoaded(1)
  \/ \E ev \in placement_events : ViewRequirements(ev.id)
  \/ \E r \in Requirements : UploadRequirementDocument(r)

BucketSpec == BucketInit /\ [][BucketNext]_vars


\* ======================================================================
\* The claims.  `ret` holds a result exactly in the state in which a call
\* returns it, so a formula over `ret` speaks of the moment of the return.
\* ======================================================================
CredentialKinds == {"signInAdmin", "signInStudent", "registerStudent"}

IdentityAsBefore(r) == user = r.before.user /\ userType = r.before.userType

\* C1: whenever signInAdmin, signInStudent or registerStudent returns its result
\* (success, any failure return, or a thrown directory fault), loading is false
\* at that moment.  Stated for a configured build.
C1_LoadingFalseAtReturn ==
  \A r \in ret : (env = "configured" /\ r.kind \in CredentialKinds) => loading = FALSE

\* C2: a registerStudent call issued while the students table holds a row with
\* the input uid or a row with the input email (the same row or two different
\* rows) returns the Conflict failure and leaves the identity as it was.  Stated
\* for a configured build and a call whose directory requests were all answered.
C2_ExistingUidOrEmailIsConflict ==
  \A r \in ret :
    ( /\ r.kind = "registerStudent"
      /\ env = "configured"
      /\ ~r.faulted
      /\ \E s \in r.before.students : s.uid = r.args.uid \/ s.email = r.args.email )
    => (r.error = MsgConflict /\ IdentityAsBefore(r))

\* C3: when signInAdmin, signInStudent or registerStudent returns a failure, the
\* identity (user and userType) is the one held when the call was issued, be it
\* none, an administrator or a student.
C3_FailureKeepsIdentity ==
  \A r \in ret : (r.kind \in CredentialKinds /\ ~r.success) => IdentityAsBefore(r)

\* A failure is returned to a client that was authenticated when it called.
C3_Witness ==
  \E r \in ret : r.kind \in CredentialKinds /\ ~r.success /\ r.before.user # {} /\ user # {}

\* C4: in every state a consumer of the context can render, user is null
\* exactly when userType is null, and a non-null user has type = userType.
C4_IdentityIsWhole ==
  /\ (user = {}) <=> (userType = "null")
  /\ \A u \in user : userType = u.type

\* The identity signInAdmin(args) has to commit: the row with admin_code =
\* args.code, whose secret is args.password.
AdminCommitted(args) ==
  \E a \in admin_users :
    /\ a.admin_code = args.code
    /\ a.password_hash = args.password
    /\ user = {[id |-> a.id, name |-> a.name, email |-> a.email, type |-> "admin",
                adminCode |-> args.code]}

\* C5: signInAdmin(code, password) commits an administrator identity only if
\* the admin table holds a row with admin_code = code whose stored secret equals
\* password, and the identity has adminCode = code and the id, name and email of
\* that row: from the first setter of the commit to the return of success.
C5_AdminCommitNeedsMatchingSecret ==
  /\ \A r \in ret :
       (r.kind = "signInAdmin" /\ r.success) => (AdminCommitted(r.args) /\ userType = "admin")
  /\ \A c \in Slots :
       (calls[c].kind = "signInAdmin" /\ calls[c].pc \in {"setUserType", "setLoading"})
         => AdminCommitted(calls[c].args)

\* signInAdmin returns success.
C5_Witness == \E r \in ret : r.kind = "signInAdmin" /\ r.success

\* C6: signInAdmin returns 'Invalid admin code' exactly when the directory
\* answered and no row has the code, 'Invalid password' exactly when the
\* directory answered and the row's secret differs from the password, and a
\* call with a failed directory request returns neither of the two.
C6_AdminFailureClassified ==
  \A r \in ret :
    r.kind = "signInAdmin" =>
      LET matches == {a \in admin_users : a.admin_code = r.args.code}
      IN  /\ (r.error = MsgInvalidAdminCode) <=> (~r.faulted /\ matches = {})
          /\ (r.error = MsgInvalidPassword)
               <=> (~r.faulted /\ \E a \in matches : a.password_hash # r.args.password)
          /\ r.faulted => r.error \notin {MsgInvalidAdminCode, MsgInvalidPassword}

\* C7: two signInAdmin runs with the same password, the first with a code no
\* row has, the second with a code of a row whose secret is not that password,
\* both answered by the directory, return the same result (success flag and
\* error).
C7_AdminFailuresIndistinguishable ==
  ( /\ Len(trace) = 2
    /\ trace[1].op.kind = "signInAdmin" /\ trace[2].op.kind = "signInAdmin"
    /\ env = "configured"
    /\ ~trace[1].op.faulted /\ ~trace[2].op.faulted
    /\ \A a \in admin_users : a.admin_code # trace[1].op.args.code
    /\ \E a \in admin_users : /\ a.admin_code = trace[2].op.args.code
                              /\ a.password_hash # trace[2].op.args.password )
  => ( /\ trace[1].op.success = trace[2].op.success
       /\ trace[1].op.error = trace[2].op.error )

\* The identity signInStudent(args) has to commit: the row with both fields.
StudentCommitted(args) ==
  \E s \in students :
    /\ s.uid = args.uid
    /\ s.email = args.email
    /\ user = {[id |-> s.id, name |-> s.name, email |-> s.email, type |-> "student",
                uid |-> s.uid, rollNo |-> s.roll_no]}

\* C8: signInStudent(uid, email) returns success only if one row has both the
\* uid and the email, and then the identity is a Student with the id, name,
\* email, uid and rollNo of that row; it returns success whenever such a row
\* exists and the directory answers the lookup; with no such row (also when the
\* uid is one row's and the email another's) it fails and commits nothing.
C8_StudentSignInMatchesOneRow ==
  \A r \in ret :
    r.kind = "signInStudent" =>
      LET both == {s \in students : s.uid = r.args.uid /\ s.email = r.args.email}
      IN  /\ r.success => (Cardinality(both) = 1 /\ StudentCommitted(r.args)
                             /\ userType = "student")
          /\ (env = "configured" /\ ~r.faulted /\ both # {}) => r.success
          /\ both = {} => (~r.success /\ IdentityAsBefore(r))

\* signInStudent returns success to a client that was not this student before.
C8_Witness ==
  \E r \in ret : r.kind = "signInStudent" /\ r.success /\ r.before.user # user

\* C9: when registerStudent returns success, the students table is the table
\* of the call's start plus exactly one row, that row has the supplied name,
\* uid, email and rollNo and an id no earlier row had, and the identity is a
\* Student with that id and the name, email, uid and rollNo of the inserted row.
C9_RegisterInsertsOneRowAndSignsIn ==
  \A r \in ret :
    (r.kind = "registerStudent" /\ r.success) =>
      \E row \in students :
        /\ row \notin r.before.students
        /\ students = r.before.students \cup {row}
        /\ \A s \in r.before.students : s.id # row.id
        /\ row.name = r.args.name /\ row.uid = r.args.uid
        /\ row.email = r.args.email /\ row.roll_no = r.args.rollNo
        /\ r.data = {row}
        /\ user = {[id |-> row.id, name |-> row.name, email |-> row.email,
                    type |-> "student", uid |-> row.uid, rollNo |-> row.roll_no]}
        /\ userType = "student"

\* registerStudent returns success on a table that already held a row.
C9_Witness ==
  \E r \in ret : r.kind = "registerStudent" /\ r.success /\ r.before.students # {}

\* C10: registerStudent(f) succeeding, then signOut, then signInStudent(f.uid,
\* f.email), nothing in between and the lookup answered by the directory: the
\* sign-in succeeds and leaves a Student identity with the id, name and rollNo
\* of the identity the registration committed.
C10_RegisterSignOutSignIn ==
  ( /\ Len(trace) = 3
    /\ trace[1].op.kind = "registerStudent" /\ trace[1].op.success
    /\ trace[2].op.kind = "signOut"
    /\ trace[3].op.kind = "signInStudent" /\ ~trace[3].op.faulted )
  => ( /\ trace[3].op.success
       /\ trace[3].userType = "student"
       /\ \E u \in trace[3].user, v \in trace[1].user :
            /\ u.type = "student"
            /\ u.id = v.id /\ u.name = v.name /\ u.rollNo = v.rollNo )

\* The round trip ran to its end: registered, signed out, signed in again.
C10_Witness ==
  /\ Len(trace) = 3
  /\ trace[1].op.kind = "registerStudent" /\ trace[1].op.success
  /\ trace[2].userType = "null" /\ trace[2].user = {}
  /\ trace[3].op.kind = "signInStudent" /\ trace[3].op.success

\* C11: registerStudent(f) succeeding, then registerStudent(f) again with the
\* same fields, nothing in between and the existence check answered by the
\* directory: the second call fails with the Conflict message, the students
\* table is the one the first call left (no second row), and the identity is
\* still the one the first call committed.
C11_SecondRegisterIsConflict ==
  ( /\ Len(trace) = 2
    /\ trace[1].op.kind = "registerStudent" /\ trace[1].op.success
    /\ trace[2].op.kind = "registerStudent"
    /\ trace[2].op.args = trace[1].op.args
    /\ ~trace[2].op.faulted )
  => ( /\ ~trace[2].op.success
       /\ trace[2].op.error = MsgConflict
       /\ students = trace[1].op.before.students \cup trace[1].op.data
       /\ Cardinality({s \in students : s.uid = trace[1].op.args.uid}) = 1
       /\ trace[2].user = trace[1].user /\ trace[2].user # {}
       /\ trace[2].userType = trace[1].userType )

\* Both registrations have returned: the first succeeded, the second was
\* answered by the directory.
C11_Witness ==
  /\ Len(trace) = 2
  /\ trace[1].op.kind = "registerStudent" /\ trace[1].op.success
  /\ trace[2].op.kind = "registerStudent" /\ ~trace[2].op.faulted
  /\ trace[2].op.args = trace[1].op.args

\* What a signOut could touch: the identity, loading, the directory and the
\* calls in flight.
ProviderState == <<user, userType, loading, admin_users, students, calls>>

\* C12: every signOut ends with user = null and userType = null, whatever the
\* state it was invoked in; a signOut invoked with no identity changes nothing
\* of the provider's state; and a signOut right after a signOut changes
\* nothing, so two of them leave the state one of them leaves.
C12_SignOutClearsIdentity ==
  [][ /\ (SignOutResult \in ret') => (user' = {} /\ userType' = "null")
      /\ ( /\ SignOutResult \in ret' \/ sync' = "signOut"
           /\ user = {} /\ userType = "null" )
         => UNCHANGED ProviderState
      /\ (SignOutResult \in ret /\ (SignOutResult \in ret' \/ sync' = "signOut"))
         => UNCHANGED ProviderState ]_vars

\* A signOut invoked by an authenticated client has returned.
C12_Witness ==
  /\ SignOutResult \in ret
  /\ user = {} /\ userType = "null"
  /\ \E c \in Slots : calls[c].kind # "idle" /\ calls[c].before.user # {}

\* The identity a successful call has to leave: built from the row the call
\* read (sign-in) or inserted (registration).
IdentityFromRow(r) ==
  IF r.kind = "signInAdmin"
  THEN {[id |-> a.id, name |-> a.name, email |-> a.email, type |-> "admin",
         adminCode |-> a.admin_code] : a \in r.data}
  ELSE {[id |-> s.id, name |-> s.name, email |-> s.email, type |-> "student",
         uid |-> s.uid, rollNo |-> s.roll_no] : s \in r.data}

\* The directory of the call's start accepts the credentials of the call.
DirectoryAccepts(r) ==
  CASE r.kind = "signInAdmin" ->
         \E a \in admin_users :
           a.admin_code = r.args.code /\ a.password_hash = r.args.password
    [] r.kind = "signInStudent" ->
         \E s \in r.before.students : s.uid = r.args.uid /\ s.email = r.args.email
    [] r.kind = "registerStudent" ->
         \A s \in r.before.students :
           s.uid # r.args.uid /\ s.email # r.args.email /\ s.roll_no # r.args.rollNo

\* C13: a signInAdmin, signInStudent or registerStudent issued by a client that
\* is already authenticated (as administrator or as student) succeeds whenever
\* the directory accepts its credentials and answers, with no signOut before
\* it, and its success replaces the identity: user is the identity of the row
\* the call read or inserted and userType is the role of the call, also when
\* the role differs from the one held before.
C13_SignInReplacesIdentity ==
  \A r \in ret :
    (r.kind \in CredentialKinds /\ r.before.user # {}) =>
      /\ r.success =>
            /\ r.data # {}
            /\ user = IdentityFromRow(r)
            /\ userType = (IF r.kind = "signInAdmin" THEN "admin" ELSE "student")
      /\ (env = "configured" /\ ~r.faulted /\ DirectoryAccepts(r)) => r.success

\* An administrator became a student in one call.
C13_Witness ==
  \E r \in ret :
    /\ r.kind \in {"signInStudent", "registerStudent"} /\ r.success
    /\ r.before.userType = "admin"
    /\ userType = "student"

\* A student became an administrator in one call.
StudentBecameAdmin ==
  \E r \in ret :
    r.kind = "signInAdmin" /\ r.success /\ r.before.userType = "student" /\ userType = "admin"


\* C14: two sign-ins issued one after the other with none awaited, so that
\* both are in flight together (each was issued with no identity held), both
\* succeeding: after both have returned, the identity is the one of the call
\* that returned last, the call whose directory response resolved last, be it
\* the first or the second that was issued.
C14_LastResolvedWins ==
  ( /\ Len(trace) = 2
    /\ trace[1].op.kind \in CredentialKinds /\ trace[2].op.kind \in CredentialKinds
    /\ trace[1].op.success /\ trace[2].op.success
    /\ trace[1].op.before.user = {} /\ trace[2].op.before.user = {} )
  => ( /\ trace[1].user = IdentityFromRow(trace[1].op)
       /\ trace[2].user = IdentityFromRow(trace[2].op)
       /\ trace[2].op.data # {}
       /\ user = IdentityFromRow(trace[2].op)
       /\ \A u \in user : userType = u.type )

\* Both sign-ins succeeded while in flight together, the one issued second
\* returned first, and the identity left is the one of the call issued first.
C14_Witness ==
  /\ Len(trace) = 2
  /\ trace[1].op.success /\ trace[2].op.success
  /\ trace[1].op.before.user = {} /\ trace[2].op.before.user = {}
  /\ script[1] # script[2]
  /\ Op(trace[1].op.kind, trace[1].op.args) = script[2]
  /\ Op(trace[2].op.kind, trace[2].op.args) = script[1]
  /\ user = IdentityFromRow(trace[2].op)
  /\ user # trace[1].user

\* The same with the calls returning in the order of issue.
ReturnedInIssueOrder ==
  /\ Len(trace) = 2
  /\ trace[1].op.success /\ trace[2].op.success
  /\ trace[1].op.before.user = {} /\ trace[2].op.before.user = {}
  /\ script[1] # script[2]
  /\ Op(trace[1].op.kind, trace[1].op.args) = script[1]
  /\ user = IdentityFromRow(trace[2].op)

\* C15: once the provider is mounted, whenever loading is true exactly one
\* signInAdmin, signInStudent or registerStudent call is outstanding: not none,
\* not two or more.
C15_LoadingMeansOneCallOutstanding ==
  (mounted /\ loading) => Cardinality(InFlight) = 1

\* loading is true with no call outstanding.
LoadingWithNoCall == mounted /\ loading /\ InFlight = {}

\* loading is true with two calls outstanding.
LoadingWithTwoCalls == mounted /\ loading /\ Cardinality(InFlight) = 2

\* C16: until the start-up check has run the provider holds no identity, has
\* loading true and has no call in flight; the step of the start-up check
\* sends nothing to the directory (no call is started, both tables stay as
\* they are) and restores no identity, and it ends with loading false and no
\* identity.
C16_StartUpCheckOnlyClearsLoading ==
  /\ [](~mounted => (user = {} /\ userType = "null" /\ loading /\ InFlight = {}))
  /\ [][ (~mounted /\ mounted')
           => ( /\ loading' = FALSE
                /\ user' = {} /\ userType' = "null"
                /\ UNCHANGED <<admin_users, students, calls>> ) ]_vars

\* The start-up check has just completed.
C16_Witness ==
  /\ mounted /\ ret = {} /\ sync = "none" /\ InFlight = {}
  /\ loading = FALSE /\ user = {} /\ userType = "null"

\* C17: every step that ends a signInAdmin, signInStudent or registerStudent
\* call, whatever the directory did (answer, returned error, thrown exception),
\* hands the caller a result of that call: {success: true} with no error, or
\* {success: false} with an error message.  No call ends without a result.
C17_EveryCallEndsWithAResult ==
  [][ \A c \in Slots :
        (calls[c].kind # "idle" /\ calls'[c].kind = "idle")
          => \E r \in ret' :
               /\ r.kind = calls[c].kind /\ r.args = calls[c].args
               /\ r.success \in BOOLEAN
               /\ r.success <=> (r.error = "") ]_vars

\* A directory request of a registerStudent call threw (a TypeError of fetch)
\* and the call returned the message of its catch block.
C17_Witness ==
  \E r \in ret :
    /\ r.kind = "registerStudent" /\ r.faulted
    /\ ~r.success /\ r.error = MsgCannotConnectRegister

\* The same for signInAdmin and signInStudent.
SignInCaught ==
  /\ \E r \in ret : r.kind \in {"signInAdmin", "signInStudent"} /\ r.faulted
  /\ \E r \in ret : r.error \in {MsgLoginFailed, MsgCannotConnectSignIn}

\* C18: provided every directory request settles, every call that was issued
\* returns: a slot holding a call is free again later, whatever other calls
\* and signOuts the client invokes meanwhile.
C18_EveryCallReturns ==
  \A c \in Slots : (calls[c].kind # "idle") ~> (calls[c].kind = "idle")

\* A call returns its result while another call is still in flight.
C18_Witness ==
  /\ \E r \in ret : r.kind \in CredentialKinds
  /\ InFlight # {}

\* A step of signOut: its first setter or its return.
SignOutStep == SignOutResult \in ret' \/ (sync # "signOut" /\ sync' = "signOut")

\* C19: no step changes the administrator table; a step changes the students
\* table only as the insert of a registerStudent call that got past its
\* existence check, by adding one row with the fields of that call, and that
\* step does not return a failure; a step of signOut starts no directory
\* request and changes no table; and a signInAdmin, a signInStudent or a
\* failed registerStudent returns with the students table of its start.
C19_DirectoryChangedByInsertOnly ==
  /\ [][ /\ admin_users' = admin_users
          /\ students' # students =>
               \E c \in Slots :
                 /\ calls[c].kind = "registerStudent" /\ calls[c].pc = "insert"
                 /\ \E row \in students' :
                      /\ row \notin students
                      /\ students' = students \cup {row}
                      /\ row.name = calls[c].args.name /\ row.uid = calls[c].args.uid
                      /\ row.email = calls[c].args.email
                      /\ row.roll_no = calls[c].args.rollNo
                 /\ \A r \in ret' : r.success
          /\ SignOutStep => (calls' = calls /\ students' = students) ]_vars
  /\ [](\A r \in ret :
          (r.kind \in {"signInAdmin", "signInStudent"}
             \/ (r.kind = "registerStudent" /\ ~r.success))
            => students = r.before.students)

\* A registration has stored its row: the one change of the directory.
C19_Witness ==
  \E r \in ret :
    /\ r.kind = "registerStudent" /\ r.success
    /\ students # r.before.students
    /\ admin_users = AdminRecords

\* A registration failed after its insert was sent and refused.
InsertRefused ==
  \E r \in ret :
    r.kind = "registerStudent" /\ r.error = MsgRegistrationFailed /\ ~r.faulted

\* C20: no row of the students table has an empty name, uid, email or
\* roll_no, and a registerStudent call with one of its four fields empty
\* returns a failure with the students table and the identity of its start.
C20_NoEmptyFieldInserted ==
  /\ \A s \in students : "" \notin {s.name, s.uid, s.email, s.roll_no}
  /\ \A r \in ret :
       ( /\ r.kind = "registerStudent"
         /\ "" \in {r.args.name, r.args.uid, r.args.email, r.args.rollNo} )
       => (~r.success /\ students = r.before.students /\ IdentityAsBefore(r))

\* C21: in every state, an identity of type 'admin' carries adminCode and
\* neither uid nor rollNo, and an identity of type 'student' carries uid and
\* rollNo and no adminCode (a field is carried when the object has it).
C21_IdentityFieldsMatchRole ==
  \A u \in user :
    /\ u.type \in {"admin", "student"}
    /\ u.type = "admin" =>
         DOMAIN u = {"id", "name", "email", "type", "adminCode"}
    /\ u.type = "student" =>
         DOMAIN u = {"id", "name", "email", "type", "uid", "rollNo"}

\* A student identity is held after a registration.
C21_Witness ==
  /\ \E u \in user : u.type = "student"
  /\ \E r \in ret : r.kind = "registerStudent" /\ r.success

\* An administrator identity is held.
AdminIdentityHeld == \E u \in user : u.type = "admin"

\* The messages the catch blocks return.
CatchMessages ==
  {MsgLoginFailed, MsgCannotConnectSignIn, MsgCannotConnectRegister, MsgRegistrationFailed}

\* C22: no step of signOut changes loading, so a flag that is true when
\* signOut is called (a call in flight, or a flag an earlier call left set) is
\* true after it; and once the provider is mounted, loading goes from true to
\* false only in the step in which a signInAdmin, signInStudent or
\* registerStudent call returns success or returns from its catch block.
C22_SignOutKeepsLoading ==
  [][ /\ SignOutStep => loading' = loading
      /\ sync = "signOut" => loading' = loading
      /\ (mounted /\ loading /\ ~loading')
           => \E r \in ret' :
                /\ r.kind \in CredentialKinds
                /\ r.success \/ (r.faulted /\ r.error \in CatchMessages) ]_vars

\* signOut has returned with loading true and no call in flight: the flag was
\* left set by an earlier call.
C22_Witness == SignOutResult \in ret /\ loading /\ InFlight = {}

\* signOut has returned with loading true and a call in flight.
SignedOutWhileLoading == SignOutResult \in ret /\ loading /\ InFlight # {}

\* loading went back to false after a signOut had left it true.
LoadingClearedAfterSignOut ==
  \E r \in ret :
    /\ r.kind \in CredentialKinds /\ ~loading
    /\ r.before.user # {} /\ user = {}

\* C23: a sign-in is issued and, while it is in flight, signOut is invoked and
\* completes: the identity is none when signOut returns and is still none
\* after the sign-in has returned, since that call was not issued after the
\* signOut.
C23_SignOutIsFinal ==
  ( /\ Len(trace) = 2
    /\ script[2].kind = "signOut"
    /\ trace[1].op.kind = "signOut"
    /\ trace[2].op.kind \in CredentialKinds )
  => ( /\ trace[1].user = {} /\ trace[1].userType = "null"
       /\ trace[2].user = {} /\ trace[2].userType = "null"
       /\ user = {} /\ userType = "null" )

\* Two registrations with the same uid or the same email, both issued on the
\* same table: in flight together, or the second after the first had failed.
RacingRegistrations ==
  /\ Len(trace) = 2
  /\ trace[1].op.kind = "registerStudent" /\ trace[2].op.kind = "registerStudent"
  /\ trace[2].op.before.students = trace[1].op.before.students
  /\ \/ trace[1].op.args.uid = trace[2].op.args.uid
     \/ trace[1].op.args.email = trace[2].op.args.email

\* C24: however the existence checks and the inserts of registerStudent calls
\* interleave, no two rows of the students table have the same uid or the
\* same email, and of two calls in flight together with the same uid or email
\* at most one returns success, the one whose identity is committed.
C24_ConcurrentRegistrationsStayUnique ==
  /\ \A s, t \in students : (s.uid = t.uid \/ s.email = t.email) => s = t
  /\ RacingRegistrations =>
       /\ ~(trace[1].op.success /\ trace[2].op.success)
       /\ Cardinality({s \in students : s.uid \in {trace[1].op.args.uid,
                                                     trace[2].op.args.uid}}) <= 1
       /\ \A i \in 1..2 : trace[i].op.success => trace[i].user = IdentityFromRow(trace[i].op)

\* Both calls got past the existence check before either insert: the first
\* insert was stored, the second was refused by the table.
C24_Witness ==
  /\ RacingRegistrations
  /\ \E i, j \in 1..2 :
       /\ trace[i].op.success
       /\ ~trace[j].op.faulted /\ trace[j].op.error = MsgRegistrationFailed

\* C25: in every state, a student identity has a row of the students table
\* with its id, uid and email, and an administrator identity has a row of the
\* admin table with its id and admin_code.
C25_IdentityHasDirectoryRecord ==
  \A u \in user :
    /\ u.type = "student" =>
         \E s \in students : s.id = u.id /\ s.uid = u.uid /\ s.email = u.email
    /\ u.type = "admin" =>
         \E a \in admin_users : a.id = u.id /\ a.admin_code = u.adminCode

\* An administrator identity is held and its row is in the admin table.
C25_Witness ==
  \E u \in user, a \in admin_users :
    u.type = "admin" /\ a.id = u.id /\ a.admin_code = u.adminCode

\* A student identity is held and its row is in the students table.
StudentIdentityHasRow ==
  \E u \in user, s \in students : u.type = "student" /\ s.id = u.id /\ s.uid = u.uid

\* A registration whose uid and email no row had and whose rollNo a row had
\* when the call was issued, every request answered by the directory.
RollNoTaken(r) ==
  /\ r.kind = "registerStudent"
  /\ env = "configured"
  /\ ~r.faulted
  /\ \A s \in r.before.students : s.uid # r.args.uid /\ s.email # r.args.email
  /\ \E s \in r.before.students : s.roll_no = r.args.rollNo

\* C26: a registerStudent with a uid and an email no row uses and a rollNo a
\* row already uses returns the failure 'Registration failed. Please try
\* again.' (not the Conflict message), with the students table and the
\* identity of its start.
C26_TakenRollNoIsGenericFailure ==
  \A r \in ret :
    RollNoTaken(r) =>
      /\ ~r.success
      /\ r.error = MsgRegistrationFailed /\ r.error # MsgConflict
      /\ r.data = {}
      /\ students = r.before.students
      /\ IdentityAsBefore(r)

\* Such a registration has returned to a client that holds an identity.
C26_Witness == \E r \in ret : RollNoTaken(r) /\ user # {}

\* ---------------------------------------------------------------------
\* The student has an application for the event in the table.
HasApplied(e, s) ==
  \E a \in placement_applications : a.placement_event_id = e /\ a.student_id = s

\* The insert of call c is answered at this step.
InsertAnswered(c) == applies[c].pc = "insert" /\ applies'[c].pc # "insert"

\* C27: in any interleaving of applyForPlacement calls the applications table
\* never holds two applications of one student for one event; and an insert
\* for a pair that already has an application adds no row and, unless the
\* request itself failed, is answered with 23505 and shown as 'Already Applied'.
C27_OneApplicationPerEventAndStudent ==
  /\ [](\A a, b \in placement_applications :
          (a.placement_event_id = b.placement_event_id /\ a.student_id = b.student_id)
            => a = b)
  /\ [][\A c \in Slots :
          (InsertAnswered(c) /\ HasApplied(applies[c].event, applies[c].student))
            => /\ placement_applications' = placement_applications
               /\ \/ \E a \in alert' : a.code \in {"error", "thrown"}
                  \/ alert' = Shown(applies[c].event, "Already Applied", "23505")]_vars

\* A second application for an event the student has applied for was answered
\* with 23505.
C27_Witness ==
  \E a \in alert :
    /\ a.title = "Already Applied"
    /\ a.code = "23505"
    /\ HasApplied(a.event, John.id)
    /\ Cardinality(placement_applications) = 1

\* Without a Supabase session of the student the policy refuses the insert
\* before the unique index sees it: the alert is 'Error', the code 42501.
RefusedByPolicy ==
  \E a \in alert : a.title = "Error" /\ a.code = "42501" /\ session = {}

\* The profile row of the student has the four fields.
ProfileIsComplete(s) ==
  \E p \in student_profiles :
    /\ p.student_id = s
    /\ p.full_name # "" /\ p.uid # "" /\ p.roll_no # "" /\ p.class # ""

\* C28: applyForPlacement sends the insert, and the table gets an application,
\* only with a signed-in user whose profile has full_name, uid, roll_no and
\* class; and a call that has set the applying flag leaves it null when it ends,
\* on the success, the duplicate and the error path.
C28_AppliesOnlyWithIdentityAndProfile ==
  /\ [](\A a \in placement_applications :
          user # {} /\ ProfileIsComplete(a.student_id))
  /\ [][/\ \A c \in Slots :
             (applies'[c].pc = "insert" /\ applies[c].pc # "insert")
               => user # {} /\ ProfileIsComplete(applies'[c].student)
        /\ \A c \in Slots :
             (applies[c].pc \in {"insert", "modal"} /\ applies'[c].pc = "idle")
               => applying' = "null"]_vars

\* A signed-in student whose profile lacks a field was turned away, nothing
\* was inserted and the flag was never set.
C28_Witness ==
  /\ \E a \in alert : a.title = "Profile Incomplete"
  /\ user # {}
  /\ student_profiles # {}
  /\ ~ProfileIsComplete(John.id)
  /\ placement_applications = {}
  /\ applying = "null"

\* The call returned at once because nobody is signed in.
RefusedWithoutIdentity ==
  /\ \E a \in alert : a.title = "none"
  /\ user = {}
  /\ placement_applications = {}

\* The flag is null after the duplicate and after the error path.
FlagClearedAfterDuplicate ==
  (\E a \in alert : a.title = "Already Applied") /\ applying = "null"

FlagClearedAfterError ==
  (\E a \in alert : a.title = "Error") /\ applying = "null"

\* C29: every upload for an event goes to the bucket that createCompanyBucket
\* provisioned for the event and that the event's bucket_name holds, whatever
\* the company name.
C29_UploadGoesToEventBucket ==
  \A u \in upload :
    \E e \in placement_events :
      /\ e.id = u.event
      /\ u.bucket = e.bucket_name
      /\ u.bucket \in buckets

\* The screen that reads bucket_name does upload to the event's bucket.
UploadByBucketNameGoesToEventBucket ==
  revision = "byBucketName" => C29_UploadGoesToEventBucket

\* An upload was attempted, and one was stored.
UploadAttempted == upload # {}
UploadStored == \E u \in upload : u.stored
====
